---- MODULE Spec2Model ----
(***************************************************************************)
(* Model of the sunny transport layer: the process-wide connection         *)
(* registry (NewConnection), the receive loop with its two fan-outs        *)
(* (listenLoop, handleDiscovered, handlePackets), the receiver and         *)
(* discoverer registries, and the discovery session (DiscoverDevices,      *)
(* SimpleDiscoverDevices).                                                 *)
(*                                                                         *)
(* The specifications share the module, one per subsystem:                 *)
(*   SpecReg   callers of NewConnection racing on the registry             *)
(*   SpecRecv  one Connection's receive loop and its registries            *)
(*   SpecDisc  one caller running discovery sessions on a Connection       *)
(*             (FairSpecDisc adds the scheduling fairness used for         *)
(*             termination)                                                *)
(*   SpecLock  two callers racing for the discovery session lock           *)
(*   SpecConc  the receive loop beside a running discovery session         *)
(*   SpecWatch the discovery fan-out with several watcher channels         *)
(*   SpecSubs  the packet dispatch with a repeatedly registered receiver   *)
(***************************************************************************)
EXTENDS Integers, Sequences, FiniteSets, TLC

\* ------------------------------------------------------------------ bounds
NumCallers == 2
MaxCalls == 3

\* Interface names handed to NewConnection; "" is the default interface.
Infs == {"", "eth0"}
Callers == 1..NumCallers
NoConn == 0

\* ---------------------------------------------------------------- registry
VARIABLES
    connectionMutex,   \* 0 when free, else the caller holding it
    connections,       \* interface name -> index into conns, NoConn when absent
    conns,             \* every Connection struct ever built: [inf, socket, rbuf, loop]
    ncPc,              \* per caller: position inside NewConnection
    ncInf,             \* per caller: the inf argument
    ncConn,            \* per caller: index of the local conn being set up
    ncRet,             \* per caller: last return value [conn, err]
    calls,             \* number of NewConnection calls made so far
    returnedConns,     \* history: inf -> set of conns returned with a nil error
    failedInfs         \* history: interface names for which a call returned an error

regVars == <<connectionMutex, connections, conns, ncPc, ncInf, ncConn, ncRet,
             calls, returnedConns, failedInfs>>

RegInit ==
    /\ connectionMutex = 0
    /\ connections = [i \in Infs |-> NoConn]
    /\ conns = <<>>
    /\ ncPc = [c \in Callers |-> "idle"]
    /\ ncInf = [c \in Callers |-> ""]
    /\ ncConn = [c \in Callers |-> NoConn]
    /\ ncRet = [c \in Callers |-> [conn |-> NoConn, err |-> FALSE]]
    /\ calls = 0
    /\ returnedConns = [i \in Infs |-> {}]
    /\ failedInfs = {}

\* connection.go:53  c, ok := connections[inf]
KnownNever(inf) == FALSE
Known(inf) == connections[inf] # NoConn

\* Number of sockets opened / receive loops started for an interface name.
socketsOpened(inf) ==
    Cardinality({i \in 1..Len(conns) : conns[i].inf = inf /\ conns[i].socket})
loopsStarted(inf) ==
    Cardinality({i \in 1..Len(conns) : conns[i].inf = inf /\ conns[i].loop})

\* return nil, err  (the deferred Unlock runs; the local conn is dropped)
NCFail(c) ==
    /\ ncRet' = [ncRet EXCEPT ![c] = [conn |-> NoConn, err |-> TRUE]]
    /\ failedInfs' = failedInfs \cup {ncInf[c]}
    /\ connectionMutex' = 0
    /\ ncPc' = [ncPc EXCEPT ![c] = "idle"]
    /\ ncConn' = [ncConn EXCEPT ![c] = NoConn]
    /\ UNCHANGED <<connections, returnedConns>>

\* a caller invokes NewConnection(inf)
NCCall(c, inf) ==
    /\ ncPc[c] = "idle"
    /\ calls < MaxCalls
    /\ calls' = calls + 1
    /\ ncInf' = [ncInf EXCEPT ![c] = inf]
    /\ ncPc' = [ncPc EXCEPT ![c] = "lock"]
    /\ UNCHANGED <<connectionMutex, connections, conns, ncConn, ncRet,
                   returnedConns, failedInfs>>

\* connectionMutex.Lock()
NCLock(c) ==
    /\ ncPc[c] = "lock"
    /\ connectionMutex = 0
    /\ connectionMutex' = c
    /\ ncPc' = [ncPc EXCEPT ![c] = "check"]
    /\ UNCHANGED <<connections, conns, ncInf, ncConn, ncRet, calls,
                   returnedConns, failedInfs>>

\* the lookup; either return the known connection or build a fresh struct
NCCheck(c) ==
    /\ ncPc[c] = "check"
    /\ IF Known(ncInf[c])
       THEN /\ ncRet' = [ncRet EXCEPT ![c] =
                            [conn |-> connections[ncInf[c]], err |-> FALSE]]
            /\ returnedConns' = [returnedConns EXCEPT ![ncInf[c]] =
                                    @ \cup {connections[ncInf[c]]}]
            /\ connectionMutex' = 0
            /\ ncPc' = [ncPc EXCEPT ![c] = "idle"]
            /\ UNCHANGED <<conns, ncConn>>
       ELSE /\ conns' = Append(conns, [inf |-> ncInf[c], socket |-> FALSE,
                                       rbuf |-> FALSE, loop |-> FALSE])
            /\ ncConn' = [ncConn EXCEPT ![c] = Len(conns) + 1]
            /\ ncPc' = [ncPc EXCEPT ![c] = "resolveAddr"]
            /\ UNCHANGED <<ncRet, returnedConns, connectionMutex>>
    /\ UNCHANGED <<connections, ncInf, calls, failedInfs>>

\* net.ResolveUDPAddr("udp", listenAddress)
NCResolveAddr(c) ==
    /\ ncPc[c] = "resolveAddr"
    /\ \E ok \in BOOLEAN :
          IF ok
          THEN /\ ncPc' = [ncPc EXCEPT ![c] =
                              IF ncInf[c] # "" THEN "ifByName" ELSE "listen"]
               /\ UNCHANGED <<connectionMutex, connections, ncConn, ncRet,
                              returnedConns, failedInfs>>
          ELSE NCFail(c)
    /\ UNCHANGED <<conns, ncInf, calls>>

\* net.InterfaceByName(inf), only for a non-empty name
NCInterfaceByName(c) ==
    /\ ncPc[c] = "ifByName"
    /\ \E ok \in BOOLEAN :
          IF ok
          THEN /\ ncPc' = [ncPc EXCEPT ![c] = "listen"]
               /\ UNCHANGED <<connectionMutex, connections, ncConn, ncRet,
                              returnedConns, failedInfs>>
          ELSE NCFail(c)
    /\ UNCHANGED <<conns, ncInf, calls>>

\* net.ListenMulticastUDP: on success the socket is open
NCListen(c) ==
    /\ ncPc[c] = "listen"
    /\ \E ok \in BOOLEAN :
          IF ok
          THEN /\ conns' = [conns EXCEPT ![ncConn[c]].socket = TRUE]
               /\ ncPc' = [ncPc EXCEPT ![c] = "setbuf"]
               /\ UNCHANGED <<connectionMutex, connections, ncConn, ncRet,
                              returnedConns, failedInfs>>
          ELSE /\ NCFail(c)
               /\ UNCHANGED conns
    /\ UNCHANGED <<ncInf, calls>>

\* a slip that publishes the connection before its socket is configured
NCSetReadBufferRegisterFirst(c) ==
    /\ ncPc[c] = "setbuf"
    /\ \E ok \in BOOLEAN :
          IF ok
          THEN /\ conns' = [conns EXCEPT ![ncConn[c]].rbuf = TRUE]
               /\ ncPc' = [ncPc EXCEPT ![c] = "start"]
               /\ UNCHANGED <<connectionMutex, connections, ncConn, ncRet,
                              returnedConns, failedInfs>>
          ELSE /\ ncRet' = [ncRet EXCEPT ![c] = [conn |-> NoConn, err |-> TRUE]]
               /\ failedInfs' = failedInfs \cup {ncInf[c]}
               /\ connectionMutex' = 0
               /\ ncPc' = [ncPc EXCEPT ![c] = "idle"]
               /\ ncConn' = [ncConn EXCEPT ![c] = NoConn]
               /\ connections' = [connections EXCEPT ![ncInf[c]] = ncConn[c]]
               /\ UNCHANGED <<conns, returnedConns>>
    /\ UNCHANGED <<ncInf, calls>>

\* conn.socket.SetReadBuffer(2048)
NCSetReadBuffer(c) ==
    /\ ncPc[c] = "setbuf"
    /\ \E ok \in BOOLEAN :
          IF ok
          THEN /\ conns' = [conns EXCEPT ![ncConn[c]].rbuf = TRUE]
               /\ ncPc' = [ncPc EXCEPT ![c] = "start"]
               /\ UNCHANGED <<connectionMutex, connections, ncConn, ncRet,
                              returnedConns, failedInfs>>
          ELSE /\ NCFail(c)
               /\ UNCHANGED conns
    /\ UNCHANGED <<ncInf, calls>>

\* go conn.listenLoop(); connections[inf] = &conn; return &conn, nil
NCRegister(c) ==
    /\ ncPc[c] = "start"
    /\ conns' = [conns EXCEPT ![ncConn[c]].loop = TRUE]
    /\ connections' = [connections EXCEPT ![ncInf[c]] = ncConn[c]]
    /\ ncRet' = [ncRet EXCEPT ![c] = [conn |-> ncConn[c], err |-> FALSE]]
    /\ returnedConns' = [returnedConns EXCEPT ![ncInf[c]] = @ \cup {ncConn[c]}]
    /\ connectionMutex' = 0
    /\ ncPc' = [ncPc EXCEPT ![c] = "idle"]
    /\ ncConn' = [ncConn EXCEPT ![c] = NoConn]
    /\ UNCHANGED <<ncInf, calls, failedInfs>>

\* ------------------------------------------------------------ receive side
\* Source addresses seen on datagrams, receiver channels, watcher channels.
IPs == {"10.0.0.1", "10.0.0.2"}
Chans == {"c1", "c2"}
DChans == {"d1"}
\* Subscribers that made their channel with a roomier buffer.
WideChans == {"c3"}
WideDChans == {"d2"}
AllChans == Chans \cup WideChans
AllDChans == DChans \cup WideDChans
\* Capacity of a subscriber's buffered channel, and how many registrations
\* one registry slice may hold in the model.
ChanCap == 1
MaxRegs == 2
NoSession == 0
\* cap(ch) of a subscriber's channel
Cap(ch) == IF ch \in WideChans \cup WideDChans THEN ChanCap + 1 ELSE ChanCap

\* Payloads on the wire: a well-formed one, a truncated one, a foreign one.
Payloads == {<<"SMA", 1>>, <<"SMA">>, <<"XXX", 1>>}

VARIABLES
    receiverMutex,     \* number of holders of receiverMutex.RLock
    receiverChannels,  \* map: source IP (when present) -> sequence of channels
    chanBuf,           \* receiver channel -> queued packets, each tagged with its source
    discoverMutex,     \* [writer, readers] of the Connection's discoverMutex
    discoverChannels,  \* sequence of watcher channels
    discBuf,           \* watcher channel -> queued source IPs
    loopPc,            \* position of listenLoop
    srcIP,             \* listenLoop's srcIP ("" outside an iteration)
    pack,              \* listenLoop's decoded packet (NoPacket outside an iteration)
    hdList,            \* handleDiscovered: channels still to visit
    hpList,            \* handlePackets: channels still to visit
    unregistered,      \* history: <<ip, ch>> removed by unregisterReceiver and not registered since
    corruptFlip,       \* history: flips at every datagram that fails to decode
    noopFlip,          \* history: flips at every unregister call that finds nothing to remove
    hdSent             \* history: watcher channel -> sends that succeeded in the running fan-out

recvVars == <<receiverMutex, receiverChannels, chanBuf, discoverMutex,
              discoverChannels, discBuf, loopPc, srcIP, pack, hdList, hpList,
              unregistered, corruptFlip, noopFlip, hdSent>>

NoPacket == [data |-> 0]

RecvInit ==
    /\ receiverMutex = 0
    /\ receiverChannels = << >>
    /\ chanBuf = [ch \in AllChans |-> <<>>]
    /\ discoverMutex = [writer |-> NoSession, readers |-> 0]
    /\ discoverChannels = <<>>
    /\ discBuf = [d \in AllDChans |-> <<>>]
    /\ loopPc = "read"
    /\ srcIP = ""
    /\ pack = NoPacket
    /\ hdList = <<>>
    /\ hpList = <<>>
    /\ unregistered = {}
    /\ corruptFlip = FALSE
    /\ noopFlip = FALSE
    /\ hdSent = [d \in AllDChans |-> 0]

\* proto.Packet.Read: a payload decodes when it carries the protocol tag and
\* a body; anything else is an error.
Read(b) ==
    IF Len(b) = 2 /\ b[1] = "SMA"
    THEN [err |-> FALSE, packet |-> [data |-> b[2]]]
    ELSE [err |-> TRUE, packet |-> NoPacket]

\* c.receiverChannels[srcIp]: a missing key reads as the nil slice
Receivers(ip) ==
    IF ip \in DOMAIN receiverChannels THEN receiverChannels[ip] ELSE <<>>

\* slices.DeleteFunc(s, func(e) bool { return e == ch })
RECURSIVE DeleteFunc(_, _)
DeleteFunc(s, ch) ==
    IF s = <<>> THEN <<>>
    ELSE IF Head(s) = ch THEN DeleteFunc(Tail(s), ch)
    ELSE <<Head(s)>> \o DeleteFunc(Tail(s), ch)

\* select { case ch <- v: default: } on a buffered channel
FullNever(ch, buf) == FALSE
Full(ch, buf) == Len(buf) >= Cap(ch)
TrySend(ch, buf, v) == IF Full(ch, buf) THEN buf ELSE Append(buf, v)

Range(s) == {s[i] : i \in 1..Len(s)}

\* listenLoop: c.socket.ReadFromUDP(b), then pack.Read(b[:n]).  A read error
\* and a decode error both continue with the next read; srcIP and pack are
\* locals of one iteration.
LoopReadFallThrough(dg) ==
    /\ loopPc = "read"
    /\ IF dg.err
       THEN UNCHANGED <<loopPc, srcIP, pack, corruptFlip>>
       ELSE /\ srcIP' = dg.src
            /\ pack' = Read(dg.bytes).packet
            /\ corruptFlip' = (corruptFlip # Read(dg.bytes).err)
            /\ loopPc' = "discovered"
    /\ UNCHANGED <<receiverMutex, receiverChannels, chanBuf, discoverMutex,
                   discoverChannels, discBuf, hdList, hpList, unregistered,
                   noopFlip, hdSent>>
LoopRead(dg) ==
    /\ loopPc = "read"
    /\ IF dg.err
       THEN UNCHANGED <<loopPc, srcIP, pack, corruptFlip>>
       ELSE IF Read(dg.bytes).err
            THEN /\ corruptFlip' = ~corruptFlip
                 /\ UNCHANGED <<loopPc, srcIP, pack>>
            ELSE /\ srcIP' = dg.src
                 /\ pack' = Read(dg.bytes).packet
                 /\ loopPc' = "discovered"
                 /\ UNCHANGED <<corruptFlip>>
    /\ UNCHANGED <<receiverMutex, receiverChannels, chanBuf, discoverMutex,
                   discoverChannels, discBuf, hdList, hpList, unregistered,
                   noopFlip, hdSent>>

\* handleDiscovered: c.discoverMutex.RLock(), range c.discoverChannels
HDStart ==
    /\ loopPc = "discovered"
    /\ discoverMutex.writer = NoSession
    /\ discoverMutex' = [discoverMutex EXCEPT !.readers = @ + 1]
    /\ hdList' = discoverChannels
    /\ loopPc' = "hdLoop"
    /\ UNCHANGED <<receiverMutex, receiverChannels, chanBuf, discoverChannels,
                   discBuf, srcIP, pack, hpList, unregistered, corruptFlip, noopFlip, hdSent>>

\* a plain send, which waits for room in the channel
HDStepBlocking ==
    /\ loopPc = "hdLoop"
    /\ hdList # <<>>
    /\ ~Full(Head(hdList), discBuf[Head(hdList)])
    /\ discBuf' = [discBuf EXCEPT ![Head(hdList)] = Append(@, srcIP)]
    /\ hdSent' = [hdSent EXCEPT ![Head(hdList)] = @ + 1]
    /\ hdList' = Tail(hdList)
    /\ UNCHANGED <<receiverMutex, receiverChannels, chanBuf, discoverMutex,
                   discoverChannels, loopPc, srcIP, pack, hpList,
                   unregistered, corruptFlip, noopFlip>>

\* handleDiscovered: one iteration, a non-blocking send of srcIp
HDStep ==
    /\ loopPc = "hdLoop"
    /\ hdList # <<>>
    /\ discBuf' = [discBuf EXCEPT ![Head(hdList)] = TrySend(Head(hdList), @, srcIP)]
    /\ hdSent' = IF Full(Head(hdList), discBuf[Head(hdList)])
                 THEN hdSent
                 ELSE [hdSent EXCEPT ![Head(hdList)] = @ + 1]
    /\ hdList' = Tail(hdList)
    /\ UNCHANGED <<receiverMutex, receiverChannels, chanBuf, discoverMutex,
                   discoverChannels, loopPc, srcIP, pack, hpList,
                   unregistered, corruptFlip, noopFlip>>

\* the iteration ends after the discovery fan-out
HDEndSkipsDispatch ==
    /\ loopPc = "hdLoop"
    /\ hdList = <<>>
    /\ discoverMutex' = [discoverMutex EXCEPT !.readers = @ - 1]
    /\ loopPc' = "read"
    /\ srcIP' = ""
    /\ pack' = NoPacket
    /\ hdSent' = [d \in AllDChans |-> 0]
    /\ UNCHANGED <<receiverMutex, receiverChannels, chanBuf, discoverChannels,
                   discBuf, hdList, hpList, unregistered, corruptFlip, noopFlip>>

\* handleDiscovered: end of the range, deferred RUnlock
HDEnd ==
    /\ loopPc = "hdLoop"
    /\ hdList = <<>>
    /\ discoverMutex' = [discoverMutex EXCEPT !.readers = @ - 1]
    /\ loopPc' = "packets"
    /\ hdSent' = [d \in AllDChans |-> 0]
    /\ UNCHANGED <<receiverMutex, receiverChannels, chanBuf, discoverChannels,
                   discBuf, srcIP, pack, hdList, hpList, unregistered,
                   corruptFlip, noopFlip>>

\* handlePackets: c.receiverMutex.RLock(), range c.receiverChannels[srcIp]
HPStartNoLock ==
    /\ loopPc = "packets"
    /\ hpList' = Receivers(srcIP)
    /\ loopPc' = "hpLoop"
    /\ UNCHANGED <<receiverMutex, receiverChannels, chanBuf, discoverMutex,
                   discoverChannels, discBuf, srcIP, pack, hdList,
                   unregistered, corruptFlip, noopFlip, hdSent>>
\* the range runs over the receivers of one fixed source
HPStartIgnoresSource ==
    /\ loopPc = "packets"
    /\ receiverMutex' = receiverMutex + 1
    /\ hpList' = Receivers("10.0.0.1")
    /\ loopPc' = "hpLoop"
    /\ UNCHANGED <<receiverChannels, chanBuf, discoverMutex, discoverChannels,
                   discBuf, srcIP, pack, hdList, unregistered, corruptFlip,
                   noopFlip, hdSent>>
HPStart ==
    /\ loopPc = "packets"
    /\ receiverMutex' = receiverMutex + 1
    /\ hpList' = Receivers(srcIP)
    /\ loopPc' = "hpLoop"
    /\ UNCHANGED <<receiverChannels, chanBuf, discoverMutex, discoverChannels,
                   discBuf, srcIP, pack, hdList, unregistered, corruptFlip, noopFlip, hdSent>>

\* handlePackets: one iteration, a non-blocking send of the packet
HPStep ==
    /\ loopPc = "hpLoop"
    /\ hpList # <<>>
    /\ chanBuf' = [chanBuf EXCEPT ![Head(hpList)] =
                      TrySend(Head(hpList), @, [src |-> srcIP, data |-> pack.data])]
    /\ hpList' = Tail(hpList)
    /\ UNCHANGED <<receiverMutex, receiverChannels, discoverMutex,
                   discoverChannels, discBuf, loopPc, srcIP, pack, hdList,
                   unregistered, corruptFlip, noopFlip, hdSent>>

\* handlePackets: end of the range, deferred RUnlock, back to the read
HPEnd ==
    /\ loopPc = "hpLoop"
    /\ hpList = <<>>
    /\ receiverMutex' = IF receiverMutex > 0 THEN receiverMutex - 1 ELSE 0
    /\ loopPc' = "read"
    /\ srcIP' = ""
    /\ pack' = NoPacket
    /\ UNCHANGED <<receiverChannels, chanBuf, discoverMutex, discoverChannels,
                   discBuf, hdList, hpList, unregistered, corruptFlip, noopFlip, hdSent>>

\* registerReceiver(srcIp, ch): Lock, append, Unlock
registerReceiver(ip, ch) ==
    /\ receiverMutex = 0
    /\ Len(Receivers(ip)) < MaxRegs
    /\ receiverChannels' =
          [k \in DOMAIN receiverChannels \cup {ip} |->
              IF k = ip THEN Append(Receivers(ip), ch) ELSE receiverChannels[k]]
    /\ unregistered' = unregistered \ {<<ip, ch>>}
    /\ UNCHANGED <<receiverMutex, chanBuf, discoverMutex, discoverChannels,
                   discBuf, loopPc, srcIP, pack, hdList, hpList, corruptFlip, noopFlip, hdSent>>

\* a deletion that stops at the first match
RECURSIVE DeleteFirst(_, _)
DeleteFirst(s, ch) ==
    IF s = <<>> THEN <<>>
    ELSE IF Head(s) = ch THEN Tail(s)
    ELSE <<Head(s)>> \o DeleteFirst(Tail(s), ch)

\* one registration is dropped per call
unregisterReceiverFirstOnly(ip, ch) ==
    /\ receiverMutex = 0
    /\ IF ip \in DOMAIN receiverChannels
       THEN receiverChannels' =
               [receiverChannels EXCEPT ![ip] = DeleteFirst(@, ch)]
       ELSE UNCHANGED receiverChannels
    /\ unregistered' = IF ch \in Range(Receivers(ip))
                       THEN unregistered \cup {<<ip, ch>>}
                       ELSE unregistered
    /\ noopFlip' = IF ch \in Range(Receivers(ip)) THEN noopFlip ELSE ~noopFlip
    /\ UNCHANGED <<receiverMutex, chanBuf, discoverMutex, discoverChannels,
                   discBuf, loopPc, srcIP, pack, hdList, hpList, corruptFlip,
                   hdSent>>

\* the lookup's ok is ignored and the result stored under the key
unregisterReceiverMakesEntry(ip, ch) ==
    /\ receiverMutex = 0
    /\ receiverChannels' =
          [k \in DOMAIN receiverChannels \cup {ip} |->
              IF k = ip THEN DeleteFunc(Receivers(ip), ch) ELSE receiverChannels[k]]
    /\ unregistered' = IF ch \in Range(Receivers(ip))
                       THEN unregistered \cup {<<ip, ch>>}
                       ELSE unregistered
    /\ noopFlip' = IF ch \in Range(Receivers(ip)) THEN noopFlip ELSE ~noopFlip
    /\ UNCHANGED <<receiverMutex, chanBuf, discoverMutex, discoverChannels,
                   discBuf, loopPc, srcIP, pack, hdList, hpList, corruptFlip,
                   hdSent>>

\* unregisterReceiver(srcIp, ch): Lock, DeleteFunc when the key exists, Unlock
unregisterReceiver(ip, ch) ==
    /\ receiverMutex = 0
    /\ IF ip \in DOMAIN receiverChannels
       THEN receiverChannels' =
               [receiverChannels EXCEPT ![ip] = DeleteFunc(@, ch)]
       ELSE UNCHANGED receiverChannels
    /\ unregistered' = IF ch \in Range(Receivers(ip))
                       THEN unregistered \cup {<<ip, ch>>}
                       ELSE unregistered
    /\ noopFlip' = IF ch \in Range(Receivers(ip)) THEN noopFlip ELSE ~noopFlip
    /\ UNCHANGED <<receiverMutex, chanBuf, discoverMutex, discoverChannels,
                   discBuf, loopPc, srcIP, pack, hdList, hpList, corruptFlip,
                   hdSent>>

\* registerDiscoverer(ch): Lock, append, Unlock
registerDiscoverer(d) ==
    /\ discoverMutex.writer = NoSession /\ discoverMutex.readers = 0
    /\ Len(discoverChannels) < MaxRegs
    /\ discoverChannels' = Append(discoverChannels, d)
    /\ UNCHANGED <<receiverMutex, receiverChannels, chanBuf, discoverMutex,
                   discBuf, loopPc, srcIP, pack, hdList, hpList,
                   unregistered, corruptFlip, noopFlip, hdSent>>

\* unregisterDiscoverer(ch): Lock, DeleteFunc, Unlock
unregisterDiscoverer(d) ==
    /\ discoverMutex.writer = NoSession /\ discoverMutex.readers = 0
    /\ discoverChannels' = DeleteFunc(discoverChannels, d)
    /\ noopFlip' = IF d \in Range(discoverChannels) THEN noopFlip ELSE ~noopFlip
    /\ UNCHANGED <<receiverMutex, receiverChannels, chanBuf, discoverMutex,
                   discBuf, loopPc, srcIP, pack, hdList, hpList,
                   unregistered, corruptFlip, hdSent>>

\* a subscriber receives from its packet channel
ReceivePacket(ch) ==
    /\ chanBuf[ch] # <<>>
    /\ chanBuf' = [chanBuf EXCEPT ![ch] = Tail(@)]
    /\ UNCHANGED <<receiverMutex, receiverChannels, discoverMutex,
                   discoverChannels, discBuf, loopPc, srcIP, pack, hdList,
                   hpList, unregistered, corruptFlip, noopFlip, hdSent>>

\* a watcher receives from its notification channel
ReceiveDiscovered(d) ==
    /\ discBuf[d] # <<>>
    /\ discBuf' = [discBuf EXCEPT ![d] = Tail(@)]
    /\ UNCHANGED <<receiverMutex, receiverChannels, chanBuf, discoverMutex,
                   discoverChannels, loopPc, srcIP, pack, hdList, hpList,
                   unregistered, corruptFlip, noopFlip, hdSent>>

Datagrams ==
    {[err |-> TRUE, src |-> "", bytes |-> <<>>]}
       \cup [err : {FALSE}, src : IPs, bytes : Payloads]

\* --------------------------------------------------------------- discovery
\* the callers that may run discovery sessions on the Connection
Sessions == {1, 2}
\* Discovery requests one session may send, verification goroutines one
\* session may have in flight, and the capacities of the notification channel
\* and of a direct caller's results channel.
MaxSends == 1
MaxInFlight == 3
DiscCap == 1
DirectCap == 1
\* devices := make(chan *Device, 10)
SimpleCap == 10

VARIABLES
    discoveredDevices, \* c.discoveredDevices: queued source IPs
    sPc,               \* per session: position of the calling goroutine
    mode,              \* per session: "simple" (via SimpleDiscoverDevices) or "direct"
    ctxDone,           \* per session: ctx.Done() is closed
    sends,             \* per session: discovery requests written to the socket
    wg,                \* per session: DiscoverDevices' WaitGroup counter
    collPc,            \* per session: collector goroutine "none", "run", "exited"
    waiting,           \* per session: IP -> verification goroutines blocked on knownMutex
    running,           \* per session: the goroutine holding knownMutex, [pc, ip]
    knownMutex,        \* per session: knownMutex is locked
    knownIps,          \* per session: the dedupe map, IP (when present) -> device
    devices,           \* per session: the results channel's buffer
    closed,            \* per session: the results channel is closed
    deviceList,        \* per session: what the consumer has collected
    consumerDone,      \* per session: the consumer goroutine called wg.Done
    published,         \* history, per session: devices sent on the results channel
    failed             \* history, per session: IPs for which NewDevice returned an error

discVars == <<discoveredDevices, sPc, mode, ctxDone, sends, wg, collPc, waiting,
              running, knownMutex, knownIps, devices, closed, deviceList,
              consumerDone, published, failed>>

\* everything of the receive side but discoverMutex, which sessions lock
recvRest == <<receiverMutex, receiverChannels, chanBuf, discoverChannels,
              discBuf, loopPc, srcIP, pack, hdList, hpList, unregistered,
              corruptFlip, noopFlip, hdSent>>

NoTask == [pc |-> "none", ip |-> ""]

DiscInit ==
    /\ discoveredDevices = <<>>
    /\ sPc = [s \in Sessions |-> "idle"]
    /\ mode = [s \in Sessions |-> "simple"]
    /\ ctxDone = [s \in Sessions |-> FALSE]
    /\ sends = [s \in Sessions |-> 0]
    /\ wg = [s \in Sessions |-> 0]
    /\ collPc = [s \in Sessions |-> "none"]
    /\ waiting = [s \in Sessions |-> [ip \in IPs |-> 0]]
    /\ running = [s \in Sessions |-> NoTask]
    /\ knownMutex = [s \in Sessions |-> FALSE]
    /\ knownIps = [s \in Sessions |-> << >>]
    /\ devices = [s \in Sessions |-> <<>>]
    /\ closed = [s \in Sessions |-> FALSE]
    /\ deviceList = [s \in Sessions |-> <<>>]
    /\ consumerDone = [s \in Sessions |-> FALSE]
    /\ published = [s \in Sessions |-> <<>>]
    /\ failed = [s \in Sessions |-> {}]

\* the device NewDevice builds for an address
Device(ip) == [ip |-> ip]

\* capacity of the session's results channel
DevCap(s) == IF mode[s] = "simple" THEN SimpleCap ELSE DirectCap

RECURSIVE Total(_, _)
Total(f, S) ==
    IF S = {} THEN 0
    ELSE LET x == CHOOSE y \in S : TRUE IN f[x] + Total(f, S \ {x})

\* verification goroutines of a session that have not finished
InFlight(s) == Total(waiting[s], IPs) + (IF running[s] = NoTask THEN 0 ELSE 1)

\* a packet arrival queues its source IP on c.discoveredDevices without blocking
NotifyDiscovered(ip) ==
    /\ Len(discoveredDevices) < DiscCap
    /\ discoveredDevices' = Append(discoveredDevices, ip)
    /\ UNCHANGED <<sPc, mode, ctxDone, sends, wg, collPc, waiting, running,
                   knownMutex, knownIps, devices, closed, deviceList,
                   consumerDone, published, failed, discoverMutex>>

\* SimpleDiscoverDevices up to the call of DiscoverDevices: the results
\* channel, the consumer goroutine and the 3 s context exist
SDCall(s) ==
    /\ sPc[s] = "idle"
    /\ mode' = [mode EXCEPT ![s] = "simple"]
    /\ sPc' = [sPc EXCEPT ![s] = "lock"]
    /\ UNCHANGED <<discoveredDevices, ctxDone, sends, wg, collPc, waiting,
                   running, knownMutex, knownIps, devices, closed, deviceList,
                   consumerDone, published, failed, discoverMutex>>

\* a caller invokes DiscoverDevices with its own context and channel
DDCall(s) ==
    /\ sPc[s] = "idle"
    /\ mode' = [mode EXCEPT ![s] = "direct"]
    /\ sPc' = [sPc EXCEPT ![s] = "lock"]
    /\ UNCHANGED <<discoveredDevices, ctxDone, sends, wg, collPc, waiting,
                   running, knownMutex, knownIps, devices, closed, deviceList,
                   consumerDone, published, failed, discoverMutex>>

\* the context's deadline passes, or its owner cancels it
Deadline(s) ==
    /\ sPc[s] \in {"lock", "send", "wait"}
    /\ ~ctxDone[s]
    /\ ctxDone' = [ctxDone EXCEPT ![s] = TRUE]
    /\ UNCHANGED <<discoveredDevices, sPc, mode, sends, wg, collPc, waiting,
                   running, knownMutex, knownIps, devices, closed, deviceList,
                   consumerDone, published, failed, discoverMutex>>

\* c.discoverMutex.Lock() succeeds when nobody holds the lock
LockFreeAlways == TRUE
LockFree == discoverMutex.writer = NoSession /\ discoverMutex.readers = 0

\* DiscoverDevices: Lock, wg.Add(1), go collector
DDLock(s) ==
    /\ sPc[s] = "lock"
    /\ LockFree
    /\ discoverMutex' = [discoverMutex EXCEPT !.writer = s]
    /\ wg' = [wg EXCEPT ![s] = 1]
    /\ collPc' = [collPc EXCEPT ![s] = "run"]
    /\ sPc' = [sPc EXCEPT ![s] = "send"]
    /\ UNCHANGED <<discoveredDevices, mode, ctxDone, sends, waiting, running,
                   knownMutex, knownIps, devices, closed, deviceList,
                   consumerDone, published, failed>>

\* sender loop: the 500 ms timer wins the select, a request is written
DDSend(s) ==
    /\ sPc[s] = "send"
    /\ ~ctxDone[s]
    /\ sends[s] < MaxSends
    /\ sends' = [sends EXCEPT ![s] = @ + 1]
    /\ UNCHANGED <<discoveredDevices, sPc, mode, ctxDone, wg, collPc, waiting,
                   running, knownMutex, knownIps, devices, closed, deviceList,
                   consumerDone, published, failed, discoverMutex>>

\* ctx.Done() is ready for a select
CtxReadyNever(s) == FALSE
CtxReady(s) == ctxDone[s]

\* sender loop: ctx.Done() wins the select, break loop
DDSendExit(s) ==
    /\ sPc[s] = "send"
    /\ CtxReady(s)
    /\ sPc' = [sPc EXCEPT ![s] = "wait"]
    /\ UNCHANGED <<discoveredDevices, mode, ctxDone, sends, wg, collPc, waiting,
                   running, knownMutex, knownIps, devices, closed, deviceList,
                   consumerDone, published, failed, discoverMutex>>

\* wg.Wait() returns when the counter is zero
WgZeroAlways(s) == TRUE
WgZero(s) == wg[s] = 0

\* DiscoverDevices: wg.Wait(), deferred Unlock, return.  The session's
\* locals (collector, dedupe map) are gone; the simple form then calls
\* cancel(), a direct caller goes on draining its channel.
DDReturn(s) ==
    /\ sPc[s] = "wait"
    /\ WgZero(s)
    /\ discoverMutex' = [discoverMutex EXCEPT !.writer = NoSession]
    /\ sPc' = [sPc EXCEPT ![s] = IF mode[s] = "simple" THEN "close" ELSE "drain"]
    /\ ctxDone' = [ctxDone EXCEPT ![s] = TRUE]
    /\ collPc' = [collPc EXCEPT ![s] = "none"]
    /\ knownIps' = [knownIps EXCEPT ![s] = << >>]
    /\ sends' = [sends EXCEPT ![s] = 0]
    /\ failed' = [failed EXCEPT ![s] = {}]
    /\ UNCHANGED <<discoveredDevices, mode, wg, waiting, running, knownMutex,
                   devices, closed, deviceList, consumerDone, published>>

\* the goroutine is started without the wg.Add(1)
CollRecvNoAdd(s) ==
    /\ collPc[s] = "run"
    /\ discoveredDevices # <<>>
    /\ InFlight(s) < MaxInFlight
    /\ LET ip == Head(discoveredDevices) IN
          /\ discoveredDevices' = Tail(discoveredDevices)
          /\ waiting' = [waiting EXCEPT ![s][ip] = @ + 1]
    /\ UNCHANGED <<sPc, mode, ctxDone, sends, wg, collPc, running, knownMutex,
                   knownIps, devices, closed, deviceList, consumerDone,
                   published, failed, discoverMutex>>

\* collector: a notification wins the select; wg.Add(1), go verification
CollRecv(s) ==
    /\ collPc[s] = "run"
    /\ discoveredDevices # <<>>
    /\ InFlight(s) < MaxInFlight
    /\ LET ip == Head(discoveredDevices) IN
          /\ discoveredDevices' = Tail(discoveredDevices)
          /\ wg' = [wg EXCEPT ![s] = @ + 1]
          /\ waiting' = [waiting EXCEPT ![s][ip] = @ + 1]
    /\ UNCHANGED <<sPc, mode, ctxDone, sends, collPc, running, knownMutex,
                   knownIps, devices, closed, deviceList, consumerDone,
                   published, failed, discoverMutex>>

\* collector: ctx.Done() wins the select; break loop, wg.Done()
CollExit(s) ==
    /\ collPc[s] = "run"
    /\ CtxReady(s)
    /\ collPc' = [collPc EXCEPT ![s] = "exited"]
    /\ wg' = [wg EXCEPT ![s] = @ - 1]
    /\ UNCHANGED <<discoveredDevices, sPc, mode, ctxDone, sends, waiting,
                   running, knownMutex, knownIps, devices, closed, deviceList,
                   consumerDone, published, failed, discoverMutex>>

\* _, ok := knownIps[ip]
IsKnownNever(s, ip) == FALSE
IsKnown(s, ip) == ip \in DOMAIN knownIps[s]

\* the assignment left out
RecordNothing(m, ip) == m
\* knownIps[ip] = device
Record(m, ip) ==
    [k \in DOMAIN m \cup {ip} |-> IF k = ip THEN Device(ip) ELSE m[k]]

\* the goroutine goes on without the dedupe lock
TaskCheckNoLock(s, ip) ==
    /\ waiting[s][ip] > 0
    /\ waiting' = [waiting EXCEPT ![s][ip] = @ - 1]
    /\ IF IsKnown(s, ip)
       THEN /\ wg' = [wg EXCEPT ![s] = @ - 1]
            /\ UNCHANGED <<running, knownMutex>>
       ELSE /\ running' = [running EXCEPT ![s] = [pc |-> "newdev", ip |-> ip]]
            /\ knownMutex' = [knownMutex EXCEPT ![s] = TRUE]
            /\ UNCHANGED wg
    /\ UNCHANGED <<discoveredDevices, sPc, mode, ctxDone, sends, collPc,
                   knownIps, devices, closed, deviceList, consumerDone,
                   published, failed, discoverMutex>>

\* verification goroutine: knownMutex.Lock() and the dedupe lookup; a known
\* IP ends the goroutine (wg.Done, deferred Unlock), a new one calls NewDevice
TaskCheck(s, ip) ==
    /\ waiting[s][ip] > 0
    /\ ~knownMutex[s]
    /\ waiting' = [waiting EXCEPT ![s][ip] = @ - 1]
    /\ IF IsKnown(s, ip)
       THEN /\ wg' = [wg EXCEPT ![s] = @ - 1]
            /\ UNCHANGED <<running, knownMutex>>
       ELSE /\ running' = [running EXCEPT ![s] = [pc |-> "newdev", ip |-> ip]]
            /\ knownMutex' = [knownMutex EXCEPT ![s] = TRUE]
            /\ UNCHANGED wg
    /\ UNCHANGED <<discoveredDevices, sPc, mode, ctxDone, sends, collPc,
                   knownIps, devices, closed, deviceList, consumerDone,
                   published, failed, discoverMutex>>

\* the error branch records the device as well
TaskNewDeviceRecordsFailure(s) ==
    /\ running[s].pc = "newdev"
    /\ LET ip == running[s].ip IN
       \E ok \in BOOLEAN :
          IF ok
          THEN /\ knownIps' = [knownIps EXCEPT ![s] = Record(@, ip)]
               /\ running' = [running EXCEPT ![s].pc = "publish"]
               /\ UNCHANGED <<wg, knownMutex, failed>>
          ELSE /\ failed' = [failed EXCEPT ![s] = @ \cup {ip}]
               /\ knownIps' = [knownIps EXCEPT ![s] = Record(@, ip)]
               /\ running' = [running EXCEPT ![s] = NoTask]
               /\ knownMutex' = [knownMutex EXCEPT ![s] = FALSE]
               /\ wg' = [wg EXCEPT ![s] = @ - 1]
    /\ UNCHANGED <<discoveredDevices, sPc, mode, ctxDone, sends, collPc,
                   waiting, devices, closed, deviceList, consumerDone,
                   published, discoverMutex>>

\* verification goroutine: c.NewDevice(ip, password) returns.  On an error
\* the goroutine logs and ends (wg.Done, deferred Unlock); on success it
\* records knownIps[ip] = device and goes on to publish.
TaskNewDevice(s) ==
    /\ running[s].pc = "newdev"
    /\ LET ip == running[s].ip IN
       \E ok \in BOOLEAN :
          IF ok
          THEN /\ knownIps' = [knownIps EXCEPT ![s] = Record(@, ip)]
               /\ running' = [running EXCEPT ![s].pc = "publish"]
               /\ UNCHANGED <<wg, knownMutex, failed>>
          ELSE /\ failed' = [failed EXCEPT ![s] = @ \cup {ip}]
               /\ running' = [running EXCEPT ![s] = NoTask]
               /\ knownMutex' = [knownMutex EXCEPT ![s] = FALSE]
               /\ wg' = [wg EXCEPT ![s] = @ - 1]
               /\ UNCHANGED knownIps
    /\ UNCHANGED <<discoveredDevices, sPc, mode, ctxDone, sends, collPc,
                   waiting, devices, closed, deviceList, consumerDone,
                   published, discoverMutex>>

\* verification goroutine: devices <- device (blocks while the buffer is
\* full), then wg.Done() and the deferred Unlock
TaskPublish(s) ==
    /\ running[s].pc = "publish"
    /\ Len(devices[s]) < DevCap(s)
    /\ devices' = [devices EXCEPT ![s] = Append(@, Device(running[s].ip))]
    /\ published' = [published EXCEPT ![s] = Append(@, Device(running[s].ip))]
    /\ running' = [running EXCEPT ![s] = NoTask]
    /\ knownMutex' = [knownMutex EXCEPT ![s] = FALSE]
    /\ wg' = [wg EXCEPT ![s] = @ - 1]
    /\ UNCHANGED <<discoveredDevices, sPc, mode, ctxDone, sends, collPc,
                   waiting, knownIps, closed, deviceList, consumerDone, failed,
                   discoverMutex>>

\* consumer: for device := range devices { deviceList = append(...) }
Collect(s) ==
    /\ devices[s] # <<>>
    /\ devices' = [devices EXCEPT ![s] = Tail(@)]
    /\ deviceList' = [deviceList EXCEPT ![s] = Append(@, Head(devices[s]))]
    /\ UNCHANGED <<discoveredDevices, sPc, mode, ctxDone, sends, wg, collPc,
                   waiting, running, knownMutex, knownIps, closed,
                   consumerDone, published, failed, discoverMutex>>

\* SimpleDiscoverDevices: close(devices)
SDClose(s) ==
    /\ sPc[s] = "close"
    /\ closed' = [closed EXCEPT ![s] = TRUE]
    /\ sPc' = [sPc EXCEPT ![s] = "wgwait"]
    /\ UNCHANGED <<discoveredDevices, mode, ctxDone, sends, wg, collPc, waiting,
                   running, knownMutex, knownIps, devices, deviceList,
                   consumerDone, published, failed, discoverMutex>>

\* consumer: the range ends on the closed, drained channel; wg.Done()
ConsumerExit(s) ==
    /\ closed[s]
    /\ devices[s] = <<>>
    /\ ~consumerDone[s]
    /\ consumerDone' = [consumerDone EXCEPT ![s] = TRUE]
    /\ UNCHANGED <<discoveredDevices, sPc, mode, ctxDone, sends, wg, collPc,
                   waiting, running, knownMutex, knownIps, devices, closed,
                   deviceList, published, failed, discoverMutex>>

\* the caller has its result; the session's channel, context and list are
\* dropped and the caller may start another session
Finish(s) ==
    /\ sPc' = [sPc EXCEPT ![s] = "idle"]
    /\ ctxDone' = [ctxDone EXCEPT ![s] = FALSE]
    /\ devices' = [devices EXCEPT ![s] = <<>>]
    /\ closed' = [closed EXCEPT ![s] = FALSE]
    /\ deviceList' = [deviceList EXCEPT ![s] = <<>>]
    /\ consumerDone' = [consumerDone EXCEPT ![s] = FALSE]
    /\ published' = [published EXCEPT ![s] = <<>>]
    /\ UNCHANGED <<discoveredDevices, mode, sends, wg, collPc, waiting, running,
                   knownMutex, knownIps, failed, discoverMutex>>

\* SimpleDiscoverDevices: wg.Wait(), return deviceList
SDReturn(s) ==
    /\ sPc[s] = "wgwait"
    /\ consumerDone[s]
    /\ Finish(s)

\* a direct caller has drained its results channel
DirectDone(s) ==
    /\ sPc[s] = "drain"
    /\ devices[s] = <<>>
    /\ Finish(s)

vars == <<regVars, recvVars, discVars>>


\* State after construction: no Connection cached, no subscriber, no session.
Init == RegInit /\ RecvInit /\ DiscInit

\* S: the callers that run sessions; N: the source IPs heard from
DiscNextFor(S, N) ==
    /\ UNCHANGED <<regVars, recvRest>>
    /\ \/ \E ip \in N : NotifyDiscovered(ip)
       \/ \E s \in S : SDCall(s)
       \/ \E s \in S : DDCall(s)
       \/ \E s \in S : Deadline(s)
       \/ \E s \in S : DDLock(s)
       \/ \E s \in S : DDSend(s)
       \/ \E s \in S : DDSendExit(s)
       \/ \E s \in S : DDReturn(s)
       \/ \E s \in S : CollRecv(s)
       \/ \E s \in S : CollExit(s)
       \/ \E s \in S, ip \in IPs : TaskCheck(s, ip)
       \/ \E s \in S : TaskNewDevice(s)
       \/ \E s \in S : TaskPublish(s)
       \/ \E s \in S : Collect(s)
       \/ \E s \in S : SDClose(s)
       \/ \E s \in S : ConsumerExit(s)
       \/ \E s \in S : SDReturn(s)
       \/ \E s \in S : DirectDone(s)

\* one caller at a time
DiscNext == DiscNextFor({1}, IPs)
SpecDisc == Init /\ [][DiscNext]_vars

\* callers racing for the same Connection, one device answering
LockNext == DiscNextFor(Sessions, {"10.0.0.1"})
SpecLock == Init /\ [][LockNext]_vars

\* Scheduling assumed for termination: every runnable goroutine of the
\* session is eventually run and a select whose ctx.Done() case stays ready
\* eventually takes it; NewDevice returns; the results channel is drained.
Frame == UNCHANGED <<regVars, recvRest>>
FairSpecDisc ==
    /\ SpecDisc
    /\ WF_vars(DDSendExit(1) /\ Frame)
    /\ WF_vars(CollExit(1) /\ Frame)
    /\ \A ip \in IPs : WF_vars(TaskCheck(1, ip) /\ Frame)
    /\ WF_vars(TaskNewDevice(1) /\ Frame)
    /\ WF_vars(TaskPublish(1) /\ Frame)
    /\ WF_vars(Collect(1) /\ Frame)
    /\ WF_vars(DDReturn(1) /\ Frame)

\* ------------------------------------------------------- discovery claims

Count(seq, x) == Cardinality({i \in 1..Len(seq) : seq[i] = x})

\* C4: within a session no device is published twice, and every IP whose
\* verification succeeded (it is in the dedupe map) has been published exactly
\* once or is being published right now; whatever was published is in the map.
C4_PublishedOncePerIP ==
    \A s \in Sessions, ip \in IPs :
        /\ Count(published[s], Device(ip)) <= 1
        /\ ip \in DOMAIN knownIps[s] =>
              \/ Count(published[s], Device(ip)) = 1
              \/ running[s] = [pc |-> "publish", ip |-> ip]
        /\ (sPc[s] \in {"send", "wait"} /\ Count(published[s], Device(ip)) = 1)
              => ip \in DOMAIN knownIps[s]

\* Both IPs were verified and published, and further notifications of both
\* have been consumed and are waiting for the dedupe lock.
C4_Witness ==
    /\ sPc[1] \in {"send", "wait"}
    /\ Len(published[1]) = 2
    /\ DOMAIN knownIps[1] = IPs
    /\ \A ip \in IPs : waiting[1][ip] >= 1

\* C5: the step in which NewDevice returns an error publishes nothing, leaves
\* the dedupe map, the results channel, the collector, the sender and the
\* other verification goroutines as they were, and releases the dedupe lock.
C5_FailureDropsSilently ==
    [][\A s \in Sessions :
         (running[s].pc = "newdev" /\ running'[s] = NoTask) =>
            /\ running[s].ip \in failed'[s]
            /\ knownIps'[s] = knownIps[s]
            /\ published'[s] = published[s]
            /\ devices'[s] = devices[s]
            /\ collPc'[s] = collPc[s]
            /\ sPc'[s] = sPc[s]
            /\ ctxDone'[s] = ctxDone[s]
            /\ waiting'[s] = waiting[s]
            /\ ~knownMutex'[s]
            /\ wg'[s] = wg[s] - 1]_vars

\* One IP failed verification and is not in the map, the other IP was
\* verified and published, and the session is about to return.
C5_Witness ==
    \E bad, good \in IPs :
        /\ bad # good
        /\ failed[1] = {bad}
        /\ DOMAIN knownIps[1] = {good}
        /\ published[1] = <<Device(good)>>
        /\ sPc[1] = "wait" /\ wg[1] = 0 /\ collPc[1] = "exited"

\* a session that has not got the lock has done nothing
Pristine(s) ==
    /\ sends[s] = 0
    /\ wg[s] = 0
    /\ collPc[s] = "none"
    /\ InFlight(s) = 0
    /\ knownIps[s] = << >>
    /\ failed[s] = {}

\* C6: at most one DiscoverDevices call is past its Lock; the lock is held by
\* exactly that call; a call that is still waiting has sent nothing, consumed
\* nothing and has no dedupe map; and only the holder's session state moves.
C6_SessionsExclusive ==
    /\ [](/\ Cardinality({s \in Sessions : sPc[s] \in {"send", "wait"}}) <= 1
          /\ \A s \in Sessions :
                /\ discoverMutex.writer = s <=> sPc[s] \in {"send", "wait"}
                /\ sPc[s] \in {"idle", "lock"} => Pristine(s))
    /\ [][\A s \in Sessions :
            (\/ sends'[s] # sends[s]
             \/ waiting'[s] # waiting[s]
             \/ running'[s] # running[s]
             \/ knownIps'[s] # knownIps[s]
             \/ collPc'[s] # collPc[s]
             \/ wg'[s] # wg[s])
            => (discoverMutex.writer = s \/ discoverMutex'.writer = s)]_vars

\* The first call is in its session (request sent, device verified) while
\* the second call waits at the lock with a notification pending.
C6_Witness ==
    /\ sPc[1] = "send" /\ sends[1] = 1 /\ knownIps[1] # << >>
    /\ sPc[2] = "lock" /\ ctxDone[2]
    /\ discoveredDevices # <<>>

\* C12: within a session NewDevice is running for an IP only while no device
\* is recorded for that IP and none was published for it; a successful
\* NewDevice records its IP before anything else happens, so once an IP has
\* been verified no further NewDevice call starts for it.
C12_NoVerificationAfterSuccess ==
    /\ [](\A s \in Sessions :
            running[s].pc = "newdev" =>
               /\ running[s].ip \notin DOMAIN knownIps[s]
               /\ Count(published[s], Device(running[s].ip)) = 0)
    /\ [][\A s \in Sessions :
            (running[s].pc = "newdev" /\ running'[s].pc = "publish") =>
               /\ running'[s].ip = running[s].ip
               /\ knownIps'[s] = Record(knownIps[s], running[s].ip)]_vars

\* An IP failed verification, was verified again on a later notification and
\* this time succeeded; one more notification of it waits at the dedupe lock.
C12_Witness ==
    \E ip \in IPs :
        /\ ip \in failed[1]
        /\ ip \in DOMAIN knownIps[1]
        /\ Count(published[1], Device(ip)) = 1
        /\ waiting[1][ip] >= 1
        /\ running[1] = NoTask

\* C12 as stated: NewDevice is never running for an IP for which a NewDevice
\* call of this session has already returned, with a device or with an error.
C12_VerifiedOncePerIP ==
    \A s \in Sessions :
        running[s].pc = "newdev" =>
           running[s].ip \notin failed[s] \cup DOMAIN knownIps[s]

\* C13: while a verification goroutine of a session is in flight the call is
\* still inside DiscoverDevices holding the session lock, and the WaitGroup
\* counts every goroutine in flight; a goroutine leaves only by its own last
\* step (its wg.Done), the deadline removes none; and once the deadline has
\* fired every goroutine in flight still runs to its end.
C13_WaitsForVerifications ==
    /\ [](\A s \in {1} :
            /\ InFlight(s) > 0 =>
                  /\ sPc[s] \in {"send", "wait"}
                  /\ discoverMutex.writer = s
            /\ sPc[s] \in {"send", "wait"} =>
                  wg[s] = InFlight(s) + (IF collPc[s] = "run" THEN 1 ELSE 0))
    /\ [][\A s \in {1} :
            /\ InFlight(s)' < InFlight(s) =>
                  /\ InFlight(s)' = InFlight(s) - 1
                  /\ wg'[s] = wg[s] - 1
            /\ ctxDone'[s] # ctxDone[s] =>
                  (waiting'[s] = waiting[s] /\ running'[s] = running[s])]_vars
    /\ \A s \in {1} :
          (ctxDone[s] /\ InFlight(s) > 0) ~> (InFlight(s) = 0)

\* The deadline has fired, the sender loop and the collector have ended, and
\* DiscoverDevices sits in wg.Wait() while one goroutine is inside NewDevice
\* and another has not yet got the dedupe lock.
C13_Witness ==
    /\ ctxDone[1] /\ sPc[1] = "wait" /\ collPc[1] = "exited"
    /\ discoverMutex.writer = 1
    /\ running[1].pc = "newdev"
    /\ \E ip \in IPs : waiting[1][ip] >= 1
    /\ wg[1] >= 2

\* C20: the dedupe lock is held exactly while a verification goroutine is
\* between its lookup and its end; a goroutine enters only when the lock is
\* free and keeps it from NewDevice through the record to the publish, so at
\* most one NewDevice call or publish is in progress; and throughout a
\* session the devices published, together with the one being published, are
\* exactly the values of the dedupe map.
C20_DedupeLockCoversVerification ==
    /\ [](\A s \in Sessions :
            /\ knownMutex[s] <=> running[s] # NoTask
            /\ sPc[s] \in {"send", "wait"} =>
                  Range(published[s])
                     \cup (IF running[s].pc = "publish"
                           THEN {Device(running[s].ip)} ELSE {})
                  = {knownIps[s][ip] : ip \in DOMAIN knownIps[s]})
    /\ [][\A s \in Sessions :
            (running'[s] # running[s] /\ running'[s].pc = "newdev") =>
               (running[s] = NoTask /\ ~knownMutex[s] /\ knownMutex'[s])]_vars
    /\ [][\A s \in Sessions :
            (running[s] # NoTask /\ running'[s] # running[s]) =>
               \/ running'[s] = NoTask /\ ~knownMutex'[s]
               \/ /\ running[s].pc = "newdev"
                  /\ running'[s] = [pc |-> "publish", ip |-> running[s].ip]
                  /\ knownMutex'[s]
                  /\ published'[s] = published[s]]_vars

\* One device has been published; a goroutine holding the dedupe lock has
\* recorded a second one and is about to publish it, while notifications of
\* both IPs wait for the lock.
C20_Witness ==
    \E a, b \in IPs :
        /\ a # b
        /\ published[1] = <<Device(a)>>
        /\ running[1] = [pc |-> "publish", ip |-> b]
        /\ knownMutex[1]
        /\ DOMAIN knownIps[1] = {a, b}
        /\ waiting[1][a] >= 1 /\ waiting[1][b] >= 1

\* C9: SimpleDiscoverDevices returns the published devices in publication
\* order with nothing left in the channel; at every moment what was published
\* is what was collected followed by what is still buffered; and once the
\* channel is closed nothing more is published.
C9_SimpleReturnsPublished ==
    /\ [][\A s \in Sessions :
            (sPc[s] = "wgwait" /\ sPc'[s] = "idle") =>
               /\ deviceList[s] = published[s]
               /\ devices[s] = <<>>]_vars
    /\ [](\A s \in Sessions :
            /\ published[s] = deviceList[s] \o devices[s]
            /\ closed[s] => (InFlight(s) = 0 /\ sPc[s] = "wgwait"))
    /\ [][\A s \in Sessions :
            closed[s] => Len(published'[s]) <= Len(published[s])]_vars

\* Two devices were published and collected, the consumer has finished, and
\* SimpleDiscoverDevices is about to return them.
C9_Witness ==
    /\ mode[1] = "simple"
    /\ sPc[1] = "wgwait" /\ consumerDone[1]
    /\ Len(deviceList[1]) = 2

\* C10: from any point of a session at which the context is done,
\* DiscoverDevices returns: the sender loop and the collector have ended, no
\* verification goroutine is left, and the session lock is released.
C10_ReturnsAfterDeadline ==
    \A s \in {1} :
        (ctxDone[s] /\ sPc[s] \in {"send", "wait"})
           ~> (/\ sPc[s] \in {"close", "drain"}
               /\ discoverMutex.writer # s
               /\ collPc[s] = "none"
               /\ InFlight(s) = 0
               /\ wg[s] = 0)

\* The deadline has passed and the collector has ended while one goroutine
\* is blocked publishing on a full results channel and another still waits.
C10_Witness ==
    /\ mode[1] = "direct"
    /\ ctxDone[1] /\ sPc[1] = "wait" /\ collPc[1] = "exited"
    /\ running[1].pc = "publish"
    /\ Len(devices[1]) = DirectCap
    /\ \E ip \in IPs : waiting[1][ip] >= 1


\* DG: the datagrams that arrive; N, C: the source IPs and channels receivers
\* subscribe with; D: the watcher channels
RecvNextFor(DG, N, C, D) ==
    /\ UNCHANGED <<regVars, discVars>>
    /\ \/ \E dg \in DG : LoopRead(dg)
       \/ HDStart
       \/ HDStep
       \/ HDEnd
       \/ HPStart
       \/ HPStep
       \/ HPEnd
       \/ \E ip \in N, ch \in C : registerReceiver(ip, ch)
       \/ \E ip \in N, ch \in C : unregisterReceiver(ip, ch)
       \/ \E d \in D : registerDiscoverer(d)
       \/ \E d \in D : unregisterDiscoverer(d)
       \/ \E ch \in C : ReceivePacket(ch)
       \/ \E d \in D : ReceiveDiscovered(d)

RecvNext == RecvNextFor(Datagrams, IPs, Chans, DChans)

SpecRecv == Init /\ [][RecvNext]_vars

\* datagrams that decode
Decodable == [err : {FALSE}, src : IPs, bytes : {<<"SMA", 1>>}]

\* The receive loop of a Connection while a caller runs DiscoverDevices on
\* it: one receiver channel and one watcher channel are in use, and nothing
\* is queued on c.discoveredDevices.
ConcNext ==
    \/ RecvNextFor(Decodable, {"10.0.0.1"}, {"c1"}, DChans)
    \/ /\ UNCHANGED <<regVars, recvRest>>
       /\ \/ DDCall(1)
          \/ Deadline(1)
          \/ DDLock(1)
          \/ DDSend(1)
          \/ DDSendExit(1)
          \/ CollExit(1)
          \/ DDReturn(1)
          \/ DirectDone(1)
SpecConc == Init /\ [][ConcNext]_vars

\* The watcher side: watchers with channels of both capacities subscribe and
\* unsubscribe while datagrams from both sources arrive; one receiver channel
\* is in use.
WatchNext == RecvNextFor(Decodable, {"10.0.0.1"}, {"c1"}, AllDChans)
SpecWatch == Init /\ [][WatchNext]_vars

\* The receiver side with a roomy channel: a subscriber registers and
\* unregisters one channel, possibly several times, under either source.
SubsNext == RecvNextFor(Decodable, IPs, WideChans, DChans)
SpecSubs == Init /\ [][SubsNext]_vars

\* ------------------------------------------- session and receive loop claims

\* C11: while a discovery session is running the registry locks are free for
\* their users: the receive loop can enter the discovery fan-out and the
\* packet dispatch as soon as it reaches them, and registerDiscoverer and
\* unregisterDiscoverer can proceed whenever the receive loop is not inside
\* the fan-out.
C11_SessionLeavesRegistryLocksFree ==
    \A s \in Sessions :
        sPc[s] \in {"send", "wait"} =>
           /\ loopPc = "discovered" => ENABLED HDStart
           /\ loopPc = "packets" => ENABLED HPStart
           /\ \A d \in DChans :
                 discoverMutex.readers = 0 =>
                    /\ ENABLED unregisterDiscoverer(d)
                    /\ Len(discoverChannels) < MaxRegs =>
                          ENABLED registerDiscoverer(d)

\* C14: DiscoverDevices appends one watcher channel to the Connection's
\* watcher registry when the session starts, a watcher is registered for as
\* long as the session runs, and the step that returns removes the channel
\* again.
C14_SessionRegistersWatcher ==
    /\ [][\A s \in Sessions :
            (sPc[s] = "lock" /\ sPc'[s] = "send") =>
               \E d \in AllDChans : discoverChannels' = Append(discoverChannels, d)]_vars
    /\ [](\A s \in Sessions :
            sPc[s] \in {"send", "wait"} => discoverChannels # <<>>)
    /\ [][\A s \in Sessions :
            (sPc[s] = "wait" /\ sPc'[s] # "wait") =>
               Len(discoverChannels') = Len(discoverChannels) - 1]_vars

\* ---------------------------------------------------- receive-side claims

\* This step enqueues, on channel ch, a packet that came from source ip.
Enqueued(ch, ip) ==
    /\ Len(chanBuf'[ch]) > Len(chanBuf[ch])
    /\ chanBuf'[ch][Len(chanBuf'[ch])].src = ip

RECURSIVE IsSuffix(_, _)
IsSuffix(s, t) ==
    IF Len(s) > Len(t) THEN FALSE
    ELSE IF Len(s) = Len(t) THEN s = t
    ELSE IsSuffix(s, Tail(t))

\* C2: once unregisterReceiver(ip, ch) has returned, ch is no longer registered
\* under ip, and no step enqueues a packet from ip on ch until ch is registered
\* for ip again; a dispatch only ever writes channels registered under the
\* packet's source.
C2_NoDeliveryAfterUnregister ==
    /\ [](\A ip \in IPs, ch \in Chans :
            <<ip, ch>> \in unregistered => ch \notin Range(Receivers(ip)))
    /\ [][\A ip \in IPs, ch \in Chans :
            /\ <<ip, ch>> \in unregistered => ~Enqueued(ch, ip)
            /\ Enqueued(ch, ip) => ch \in Range(Receivers(ip))]_vars

\* A channel was registered under an IP and unregistered; a later dispatch of
\* a packet from that IP has run to its end, reached the other receiver of the
\* IP, and left the unregistered channel empty.
C2_Witness ==
    \E ip \in IPs, ch, ch2 \in Chans :
        /\ ch # ch2
        /\ <<ip, ch>> \in unregistered
        /\ loopPc = "hpLoop" /\ hpList = <<>> /\ srcIP = ip
        /\ Receivers(ip) = <<ch2>>
        /\ chanBuf[ch] = <<>>
        /\ chanBuf[ch2] = <<[src |-> ip, data |-> pack.data]>>

\* C3: each iteration of handlePackets appends the packet to the visited
\* channel when that channel has room and leaves it untouched when it is full,
\* touches no other channel, visits every channel registered for the source,
\* and can always take its next step (it never waits for a receiver).
C3_DropOnlyForFull ==
    /\ [][(loopPc = "hpLoop" /\ hpList # <<>> /\ hpList' = Tail(hpList)) =>
            LET ch == Head(hpList)
                pkt == [src |-> srcIP, data |-> pack.data]
            IN /\ IF Len(chanBuf[ch]) < Cap(ch)
                  THEN chanBuf'[ch] = Append(chanBuf[ch], pkt)
                  ELSE chanBuf'[ch] = chanBuf[ch]
               /\ \A o \in AllChans \ {ch} : chanBuf'[o] = chanBuf[o]]_vars
    /\ [](loopPc = "hpLoop" =>
            /\ IsSuffix(hpList, Receivers(srcIP))
            /\ receiverMutex = 1
            /\ ENABLED (HPStep \/ HPEnd))
    /\ [][(loopPc = "packets" /\ loopPc' = "hpLoop") =>
            hpList' = Receivers(srcIP)]_vars

\* A dispatch to two receivers of one IP has finished: the first was full of
\* packets from the other IP and still holds exactly those, the second took
\* the packet.
C3_Witness ==
    \E ip, other \in IPs :
        /\ ip # other
        /\ loopPc = "hpLoop" /\ hpList = <<>> /\ srcIP = ip
        /\ Receivers(ip) = <<"c1", "c2">>
        /\ Len(chanBuf["c1"]) = ChanCap
        /\ \A i \in 1..Len(chanBuf["c1"]) : chanBuf["c1"][i].src = other
        /\ chanBuf["c2"] = <<[src |-> ip, data |-> pack.data]>>

\* C15: an iteration of the receive loop goes from the read through the
\* discovery fan-out to the packet dispatch and back to the read, in this
\* order and with the fan-out finished before the dispatch starts; the source
\* IP and the packet stay the same from the read to the end of the dispatch;
\* watcher channels are written only during the fan-out and receiver channels
\* only during the dispatch, both with that source IP; and no datagram is read
\* while one is being handled.
C15_DiscoveredBeforePackets ==
    /\ [][loopPc' # loopPc =>
            <<loopPc, loopPc'>> \in {<<"read", "discovered">>,
                                     <<"discovered", "hdLoop">>,
                                     <<"hdLoop", "packets">>,
                                     <<"packets", "hpLoop">>,
                                     <<"hpLoop", "read">>}]_vars
    /\ [][(loopPc = "hdLoop" /\ loopPc' = "packets") => hdList = <<>>]_vars
    /\ [][(loopPc # "read" /\ loopPc' # "read") =>
            (srcIP' = srcIP /\ pack' = pack)]_vars
    /\ [][\A d \in AllDChans :
            Len(discBuf'[d]) > Len(discBuf[d]) =>
               /\ loopPc = "hdLoop"
               /\ discBuf'[d] = Append(discBuf[d], srcIP)]_vars
    /\ [][\A ch \in AllChans :
            Len(chanBuf'[ch]) > Len(chanBuf[ch]) =>
               /\ loopPc = "hpLoop"
               /\ chanBuf'[ch] =
                     Append(chanBuf[ch], [src |-> srcIP, data |-> pack.data])]_vars
    /\ [](loopPc # "read" =>
            /\ srcIP \in IPs /\ pack # NoPacket
            /\ ~ENABLED (\E dg \in Datagrams : LoopRead(dg)))
    /\ [](loopPc = "hdLoop" => IsSuffix(hdList, discoverChannels))

\* The discovery fan-out for a packet is over, the watcher holds its source
\* IP, and the dispatch to the receiver registered for that IP has not begun.
C15_Witness ==
    /\ loopPc = "packets"
    /\ discoverChannels = <<"d1">>
    /\ discBuf["d1"] = <<srcIP>>
    /\ Receivers(srcIP) = <<"c1">>
    /\ chanBuf["c1"] = <<>>

C17_UnregisterAbsentIsNoop ==
    /\ [][\A ip \in IPs, ch \in Chans :
            (ch \notin Range(Receivers(ip)) /\ unregisterReceiver(ip, ch)) =>
               /\ receiverChannels' = receiverChannels
               /\ discoverChannels' = discoverChannels
               /\ chanBuf' = chanBuf /\ discBuf' = discBuf
               /\ noopFlip' # noopFlip]_vars
    /\ [][\A d \in DChans :
            (d \notin Range(discoverChannels) /\ unregisterDiscoverer(d)) =>
               /\ receiverChannels' = receiverChannels
               /\ discoverChannels' = discoverChannels
               /\ chanBuf' = chanBuf /\ discBuf' = discBuf
               /\ noopFlip' # noopFlip]_vars
    /\ [][noopFlip' # noopFlip =>
            UNCHANGED <<receiverMutex, receiverChannels, chanBuf, discoverMutex,
                        discoverChannels, discBuf, loopPc, srcIP, pack, hdList,
                        hpList, unregistered>>]_vars
    /\ [](\A ip \in IPs, ch \in Chans :
            receiverMutex = 0 => ENABLED unregisterReceiver(ip, ch))
    /\ [](\A d \in DChans :
            (discoverMutex.writer = NoSession /\ discoverMutex.readers = 0)
               => ENABLED unregisterDiscoverer(d))

\* An odd number of unregister calls found nothing to remove; one IP has a
\* receiver, the other IP has no entry, a watcher is registered, and nothing
\* was ever removed.
C17_Witness ==
    /\ noopFlip
    /\ DOMAIN receiverChannels = {"10.0.0.1"}
    /\ receiverChannels["10.0.0.1"] = <<"c1">>
    /\ discoverChannels = <<"d1">>
    /\ unregistered = {}

\* C18: a step that enqueues a packet on a receiver channel happens inside
\* the dispatch, enqueues the packet of the dispatch's source IP, and writes a
\* channel that is registered under that IP at that moment; channels not
\* registered under it are not written; and a registerReceiver or
\* unregisterReceiver call for one IP leaves the entry of every other IP
\* (present or absent, and its list) as it was.
C18_DispatchKeyedBySource ==
    /\ [][\A ch \in AllChans :
            Len(chanBuf'[ch]) > Len(chanBuf[ch]) =>
               /\ loopPc = "hpLoop"
               /\ ch \in Range(Receivers(srcIP))
               /\ chanBuf'[ch][Len(chanBuf'[ch])].src = srcIP]_vars
    /\ [][\A ch \in AllChans :
            (loopPc = "hpLoop" /\ ch \notin Range(Receivers(srcIP))) =>
               Len(chanBuf'[ch]) <= Len(chanBuf[ch])]_vars
    /\ [][\A ip \in IPs, ch \in Chans :
            (registerReceiver(ip, ch) \/ unregisterReceiver(ip, ch)) =>
               \A o \in IPs \ {ip} :
                  /\ (o \in DOMAIN receiverChannels') = (o \in DOMAIN receiverChannels)
                  /\ Receivers(o)' = Receivers(o)]_vars

\* Each IP has its own receiver; the dispatch of a packet from one of them
\* has finished, its receiver holds the packet and the other IP's receiver
\* is empty.
C18_Witness ==
    \E a, b \in IPs :
        /\ a # b
        /\ loopPc = "hpLoop" /\ hpList = <<>> /\ srcIP = a
        /\ Receivers(a) = <<"c1">>
        /\ Receivers(b) = <<"c2">>
        /\ chanBuf["c1"] = <<[src |-> a, data |-> pack.data]>>
        /\ chanBuf["c2"] = <<>>

\* C19: every registerReceiver(ip, ch) call adds one registration of ch under
\* ip, whether or not ch is registered there already; a dispatch visits each
\* registration under the source IP once, making one non-blocking send per
\* visit, so a channel registered k times is offered the packet k times; and
\* one unregisterReceiver(ip, ch) call on an existing entry removes every
\* registration of ch under ip, keeps the other registrations in their order
\* and keeps the entry itself, empty or not.
C19_NotReferenceCounted ==
    /\ [][\A ip \in IPs, ch \in AllChans :
            registerReceiver(ip, ch) =>
               Count(Receivers(ip)', ch) = Count(Receivers(ip), ch) + 1]_vars
    /\ [][(loopPc = "packets" /\ loopPc' = "hpLoop") =>
            \A ch \in AllChans :
               Count(hpList', ch) = Count(Receivers(srcIP), ch)]_vars
    /\ [][(loopPc = "hpLoop" /\ loopPc' = "hpLoop" /\ hpList' # hpList) =>
            LET ch == Head(hpList)
            IN /\ hpList' = Tail(hpList)
               /\ chanBuf'[ch] =
                     IF Len(chanBuf[ch]) < Cap(ch)
                     THEN Append(chanBuf[ch], [src |-> srcIP, data |-> pack.data])
                     ELSE chanBuf[ch]]_vars
    /\ [][\A ip \in IPs, ch \in AllChans :
            (ip \in DOMAIN receiverChannels /\ unregisterReceiver(ip, ch)) =>
               /\ ip \in DOMAIN receiverChannels'
               /\ Count(receiverChannels'[ip], ch) = 0
               /\ \A o \in AllChans \ {ch} :
                     Count(receiverChannels'[ip], o) = Count(receiverChannels[ip], o)
               /\ Len(receiverChannels'[ip]) =
                     Len(receiverChannels[ip]) - Count(receiverChannels[ip], ch)]_vars

\* A channel that was registered twice under an IP was given a packet from
\* that IP twice by one dispatch and holds both copies; after that a single
\* unregister call has left the IP with an empty entry.
C19_Witness ==
    \E ip \in IPs :
        /\ ip \in DOMAIN receiverChannels
        /\ receiverChannels[ip] = <<>>
        /\ <<ip, "c3">> \in unregistered
        /\ loopPc = "read"
        /\ chanBuf["c3"] = <<[src |-> ip, data |-> 1], [src |-> ip, data |-> 1]>>
        /\ \A o \in IPs \ {ip} : o \notin DOMAIN receiverChannels

\* C7: reading a datagram that fails to decode changes nothing of the
\* Connection (no watcher is notified, no receiver channel is written, the
\* registries and the loop's position are as before), so what follows is as
\* if it had not arrived; and whenever the loop leaves the read it carries a
\* decoded packet and its source into the discovery fan-out.
C7_CorruptDatagramIgnored ==
    /\ [][corruptFlip' # corruptFlip =>
            /\ loopPc = "read"
            /\ UNCHANGED <<receiverMutex, receiverChannels, chanBuf,
                           discoverMutex, discoverChannels, discBuf, loopPc,
                           srcIP, pack, hdList, hpList>>]_vars
    /\ [][(loopPc = "read" /\ loopPc' # "read") =>
            /\ loopPc' = "discovered"
            /\ srcIP' \in IPs
            /\ pack' # NoPacket
            /\ corruptFlip' = corruptFlip]_vars
    /\ [](loopPc = "read" => ENABLED (\E dg \in Datagrams : LoopRead(dg)))

\* After an odd number of undecodable datagrams, a well-formed one has been
\* notified to the watcher and dispatched to the receiver of its source.
C7_Witness ==
    /\ corruptFlip
    /\ loopPc = "hpLoop" /\ hpList = <<>>
    /\ discoverChannels = <<"d1">>
    /\ discBuf["d1"] = <<srcIP>>
    /\ Receivers(srcIP) = <<"c1">>
    /\ chanBuf["c1"] = <<[src |-> srcIP, data |-> pack.data]>>
    /\ chanBuf["c2"] = <<>>


RegNext ==
    \/ \E c \in Callers, inf \in Infs : NCCall(c, inf)
    \/ \E c \in Callers : NCLock(c)
    \/ \E c \in Callers : NCCheck(c)
    \/ \E c \in Callers : NCResolveAddr(c)
    \/ \E c \in Callers : NCInterfaceByName(c)
    \/ \E c \in Callers : NCListen(c)
    \/ \E c \in Callers : NCSetReadBuffer(c)
    \/ \E c \in Callers : NCRegister(c)

SpecReg ==
    Init /\ [][RegNext /\ UNCHANGED <<recvVars, discVars>>]_vars

\* ------------------------------------------------------- registry claims

\* C1: every successful NewConnection call for one interface name returns the
\* same Connection, at most one receive loop is ever started for the name, and
\* once a connection is registered for the name no further socket is opened
\* and no further receive loop is started for it.
C1_SameInstanceOneSocket ==
    /\ [](\A inf \in Infs :
            /\ Cardinality(returnedConns[inf]) <= 1
            /\ loopsStarted(inf) <= 1
            /\ returnedConns[inf] \subseteq {connections[inf]})
    /\ [][\A inf \in Infs :
            connections[inf] # NoConn =>
               /\ socketsOpened(inf)' = socketsOpened(inf)
               /\ loopsStarted(inf)' = loopsStarted(inf)
               /\ connections'[inf] = connections[inf]]_vars

\* Two different callers hold the same instance for one name, later calls
\* having found it registered, and one socket serves them.
C1_Witness ==
    \E c1, c2 \in Callers :
        /\ c1 # c2
        /\ ncPc[c1] = "idle" /\ ncPc[c2] = "idle"
        /\ ncInf[c1] = ncInf[c2]
        /\ ncRet[c1].conn # NoConn
        /\ ncRet[c1] = ncRet[c2]
        /\ calls = MaxCalls
        /\ socketsOpened(ncInf[c1]) = 1

\* C8: a NewConnection call that returns an error leaves the registry as it
\* was and starts no receive loop, and whatever is registered is a fully
\* initialised Connection (socket open, buffer set, loop running), so a later
\* call for the name finds nothing and sets up afresh.
C8_NoPartialRegistration ==
    /\ [][\A c \in Callers :
            (ncPc[c] # "idle" /\ ncPc'[c] = "idle" /\ ncRet'[c].err) =>
               /\ connections' = connections
               /\ \A inf \in Infs : loopsStarted(inf)' = loopsStarted(inf)]_vars
    /\ [](\A inf \in Infs :
            connections[inf] # NoConn =>
               /\ conns[connections[inf]].inf = inf
               /\ conns[connections[inf]].socket
               /\ conns[connections[inf]].rbuf
               /\ conns[connections[inf]].loop)

\* A call for "eth0" failed at SetReadBuffer (its socket was opened, its
\* buffer never set), and a later call for "eth0" built and registered a
\* second, complete Connection.
C8_Witness ==
    /\ "eth0" \in failedInfs
    /\ connections["eth0"] # NoConn
    /\ \E i \in 1..Len(conns) :
          /\ conns[i].inf = "eth0" /\ conns[i].socket /\ ~conns[i].rbuf
          /\ i < connections["eth0"]
    /\ \A c \in Callers : ncPc[c] = "idle"

====
